---- MODULE Spec2Model ----
(***************************************************************************)
(* The do_while! macro of src/src/lib.rs: its three macro_rules arms, the  *)
(* `while { body; cond } { body_after; }` loops they expand to, and the    *)
(* execution of those loops over the variables the tests declare.          *)
(***************************************************************************)
EXTENDS Integers, Sequences, FiniteSets

\* ---------------------------------------------------------------- bounds
MaxLoops == 2      \* loops per generated invocation
MaxN == 2          \* a scheduled condition is true for at most MaxN checks
MaxK == 2          \* magnitude of the generated counter limits
MaxListLen == 2    \* length of the generated lists
MaxCount == 24     \* the execution counters stop counting here
MaxSteps == 40     \* the step counter stops counting here
LowLimit == 16     \* a recursion_limit set below the default by the invoking crate
HighLimit == 256   \* a recursion_limit set above the default by the invoking crate

\* ------------------------------------------------------- program constants
TestLimitX == 10   \* `while x < 10`
TestLimitY == -20  \* `while y > -20`
\* the compiler's default recursion_limit: the macro invocations that may
\* nest, one per loop through `do_while! { $( $others )* }`
RecursionLimit == 128
\* the largest i32, the type of the counters x and y
I32Max == 2147483647
I32Min == 0 - I32Max - 1

\* ---------------------------------------------------------------- tokens
\* A macro input is a sequence of token trees.  `do`, `while`, `;` and `,`
\* are literal tokens, a "block" is a `{ ... }` block and an "expr" an
\* expression that is not a block; op/k name the code the fragment holds.
Tok(t, op, k) == [t |-> t, op |-> op, k |-> k]
DO == Tok("do", "", 0)
WHILE == Tok("while", "", 0)
SEMI == Tok(";", "", 0)
COMMA == Tok(",", "", 0)
Block(op) == Tok("block", op, 0)
Expr(op, k) == Tok("expr", op, k)
\* the `{}` the first arm puts in the body position of the while loop
EmptyBlock == Block("empty")
\* `{ x < 0 }`: a block whose value is a bool
BoolBlock == Tok("block", "x_lt", 0)
\* an expression of one token: a block is one too
IsExprFragment(tok) == tok.t \in {"expr", "block"}
\* `condition`: the bool variable of the documentation, declared false
PathExpr == Expr("condition", 0)
\* the expression is a path (the others are `x < K`, `y > K`,
\* `index < list.len()`, a call `first_n(n)` and the literal `true`)
IsPath(tok) == tok.t = "expr" /\ tok.op = "condition"
\* the fragment's value is a bool, as the condition of a `while` must be
IsBool(tok) ==
  tok.op \in {"x_lt", "y_gt", "index_lt_len", "first_n", "always", "condition"}
\* the expression `while c b`, of type ()
WhileExpr(c, b) == [t |-> "expr", op |-> "while", k |-> 0, cond |-> c, body |-> b]
\* the expression `path { .. }`, read as a struct literal: it names no
\* struct, or does not hold fields, and the code it lands in does not build
StructExpr(path, b) == [t |-> "expr", op |-> "struct", k |-> 0, path |-> path, body |-> b]
NoExpr == [len |-> 0, node |-> DO]
\* $cond:expr takes the whole expression that starts at token p of ts: a
\* block; an expression token, together with the block after it when it is
\* a path and struct literals are read (they are not in the condition of a
\* `while`); or `while`, an expression and a block.  len is the number of
\* tokens it spans (0: no expression starts there, the invocation does not
\* parse).
RECURSIVE ExprAt(_, _, _)
ExprAt(ts, p, structs) ==
  IF p > Len(ts) THEN NoExpr
  ELSE IF ts[p].t = "block" THEN [len |-> 1, node |-> ts[p]]
  ELSE IF ts[p].t = "expr"
       THEN IF structs /\ IsPath(ts[p]) /\ p < Len(ts) /\ ts[p + 1].t = "block"
            THEN [len |-> 2, node |-> StructExpr(ts[p], ts[p + 1])]
            ELSE [len |-> 1, node |-> ts[p]]
  ELSE IF ts[p].t = "while"
       THEN LET c == ExprAt(ts, p + 1, FALSE)
                q == p + 1 + c.len IN
              IF c.len > 0 /\ q <= Len(ts) /\ ts[q].t = "block"
              THEN [len |-> c.len + 2, node |-> WhileExpr(c.node, ts[q])]
              ELSE NoExpr
  ELSE NoExpr

\* ------------------------------------------------------ integer to string
Digit(d) == <<"0", "1", "2", "3", "4", "5", "6", "7", "8", "9">>[d + 1]

RECURSIVE DigitsOf(_)
DigitsOf(n) == IF n < 10 THEN <<Digit(n)>>
               ELSE DigitsOf(n \div 10) \o <<Digit(n % 10)>>

\* i32::to_string: decimal digits, a leading "-" for a negative number
to_string(n) == IF n < 0 THEN <<"-">> \o DigitsOf(0 - n) ELSE DigitsOf(n)

\* the separator pushed by the secondary body, as characters
Separator == <<",", " ">>

\* --------------------------------------------------------- blocks, exprs
\* The variables the test declares before an invocation.
InitEnv(l) == [x |-> 0, y |-> 0, index |-> 0, string |-> <<>>, list |-> l]
\* The same variables with the counters declared as the context says.
StartEnv(l, c) == [InitEnv(l) EXCEPT !.x = c.x0, !.y = c.y0]

Ok(e) == [ok |-> TRUE, env |-> e]
Panic(e) == [ok |-> FALSE, env |-> e]

\* Executing a block on the variables: the new variables, or a panic.  An
\* i32 that overflows panics in a build with overflow checks (the test and
\* debug profiles) and wraps around in one without (the release profile).
ExecBlock(b, e, checks) ==
  CASE b.op = "inc_x" ->
         IF e.x = I32Max
         THEN IF checks THEN Panic(e) ELSE Ok([e EXCEPT !.x = I32Min])
         ELSE Ok([e EXCEPT !.x = e.x + 1])
    [] b.op = "dec_y" ->
         IF e.y = I32Min
         THEN IF checks THEN Panic(e) ELSE Ok([e EXCEPT !.y = I32Max])
         ELSE Ok([e EXCEPT !.y = e.y - 1])
    [] b.op = "push_item" ->
         IF e.index < Len(e.list)
         THEN Ok([e EXCEPT !.string = e.string \o to_string(e.list[e.index + 1]),
                           !.index = e.index + 1])
         ELSE Panic(e)
    [] b.op = "push_sep" -> Ok([e EXCEPT !.string = e.string \o Separator])
    [] OTHER -> Ok(e)

\* (mutant) `x <= K` written for `x < K`
EvalCondLe(c, e, nchecks) ==
  CASE c.op = "x_lt" -> e.x <= c.k
    [] c.op = "y_gt" -> e.y > c.k
    [] c.op = "index_lt_len" -> e.index < Len(e.list)
    [] c.op = "first_n" -> nchecks < c.k
    [] c.op = "always" -> TRUE
    [] c.op = "condition" -> FALSE
    [] OTHER -> FALSE

\* Evaluating a condition; nchecks is the number of checks this loop has
\* made before this one (a scheduled condition depends on nothing else).
EvalCond(c, e, nchecks) ==
  CASE c.op = "x_lt" -> e.x < c.k
    [] c.op = "y_gt" -> e.y > c.k
    [] c.op = "index_lt_len" -> e.index < Len(e.list)
    [] c.op = "first_n" -> nchecks < c.k
    [] c.op = "always" -> TRUE
    [] c.op = "condition" -> FALSE
    [] OTHER -> FALSE

\* ------------------------------------------------------------ macro arms
Rest(ts, n) == SubSeq(ts, n + 1, Len(ts))

\* () => {}
MatchesEmpty(ts) == ts = <<>>

\* the token after the expression that $cond takes (0: there is none)
AfterCond(ts) ==
  LET e == ExprAt(ts, 4, TRUE) IN
    IF e.len > 0 /\ 4 + e.len <= Len(ts) THEN 4 + e.len ELSE 0

\* the tokens `do $body:block while $cond:expr` both loop arms start with
MatchesDoBlockWhileExpr(ts) ==
  /\ Len(ts) >= 5
  /\ ts[1].t = "do" /\ ts[2].t = "block" /\ ts[3].t = "while"
  /\ AfterCond(ts) > 0

\* (do $body:block while $cond:expr; $( $others:tt )*)
MatchesDoWhile(ts) ==
  /\ MatchesDoBlockWhileExpr(ts)
  /\ ts[AfterCond(ts)].t = ";"

\* (do $body_before:block while $cond:expr, do $body_after:block $( $others:tt )*)
MatchesDoWhileDo(ts) ==
  /\ MatchesDoBlockWhileExpr(ts)
  /\ LET q == AfterCond(ts) IN
       /\ q + 2 <= Len(ts)
       /\ ts[q].t = "," /\ ts[q + 1].t = "do" /\ ts[q + 2].t = "block"

\* while { $body; $cond } {}
WhileOfDoWhile(ts) ==
  [form |-> "dw", body |-> ts[2], cond |-> ExprAt(ts, 4, TRUE).node, after |-> EmptyBlock]

\* (mutant) the two bodies land in each other's position
WhileOfDoWhileDoSwapped(ts) ==
  [form |-> "dwd", body |-> ts[AfterCond(ts) + 2], cond |-> ExprAt(ts, 4, TRUE).node,
   after |-> ts[2]]

\* while { $body_before; $cond } { $body_after; }
WhileOfDoWhileDo(ts) ==
  [form |-> "dwd", body |-> ts[2], cond |-> ExprAt(ts, 4, TRUE).node,
   after |-> ts[AfterCond(ts) + 2]]

OthersOfDoWhile(ts) == Rest(ts, AfterCond(ts))
OthersOfDoWhileDo(ts) == Rest(ts, AfterCond(ts) + 2)

\* ------------------------------------------------------------ invocations
\* do { body } while cond;
DoWhile(body, cond) == <<DO, body, WHILE, cond, SEMI>>
\* do { body_before } while cond, do { body_after }
DoWhileDo(body, cond, after) == <<DO, body, WHILE, cond, COMMA, DO, after>>

\* do { x += 1; } while x < K;
CountUp(k) == DoWhile(Block("inc_x"), Expr("x_lt", k))
\* do { y -= 1; } while y > K;
CountDown(k) == DoWhile(Block("dec_y"), Expr("y_gt", k))
\* do { string.push_str(&list[index].to_string()); index += 1; }
\* while index < list.len(), do { string.push_str(", "); }
JoinLoop == DoWhileDo(Block("push_item"), Expr("index_lt_len", 0), Block("push_sep"))

\* do { do_stuff(); } while condition [, do { do_more_stuff(); }] with a
\* condition that is true for its first n checks, or at every check
Schedules == {Expr("first_n", n) : n \in 0..MaxN} \cup {Expr("always", 0)}
SchedLoops == {DoWhile(Block("do_stuff"), c) : c \in Schedules}
         \cup {DoWhileDo(Block("do_stuff"), c, Block("do_more_stuff")) : c \in Schedules}

\* do { do_stuff(); } while condition, do {}
EmptyAfterLoop == DoWhileDo(Block("do_stuff"), Expr("first_n", 1), EmptyBlock)
\* do { x += 1; } while x < K, do { y -= 1; }
UpDownLoop(k) == DoWhileDo(Block("inc_x"), Expr("x_lt", k), Block("dec_y"))

LoopTexts == SchedLoops
        \cup {CountUp(k) : k \in (0 - 1)..MaxK}
        \cup {CountDown(k) : k \in (0 - MaxK)..1}
        \cup {JoinLoop, EmptyAfterLoop, UpDownLoop(MaxK)}

RECURSIVE Concats(_, _)
Concats(S, n) == IF n = 0 THEN {<<>>}
                 ELSE Concats(S, n - 1) \cup {l \o r : l \in S, r \in Concats(S, n - 1)}

Items == {0 - 5, 12}
RECURSIVE ListsOf(_)
ListsOf(n) == IF n = 0 THEN {<<>>}
              ELSE ListsOf(n - 1) \cup {Append(l, v) : l \in ListsOf(n - 1), v \in Items}

UsesList(ts) == \E i \in 1..Len(ts) : ts[i].op \in {"push_item", "index_lt_len"}

\* the three invocations of tests::test_do_while, with the list each one sees
TestSimple == CountUp(TestLimitX)
TestJoin == JoinLoop
TestMulti == CountUp(TestLimitX) \o CountDown(TestLimitY) \o JoinLoop
TestRuns == {<<TestSimple, <<>>>>, <<TestJoin, <<1, 2, 3, 4>>>>,
             <<TestMulti, <<5, 6, 7, 8>>>>}

\* inputs one token away from a well-formed invocation
ShapeTokens == {DO, WHILE, SEMI, COMMA, Block("do_stuff"), Expr("first_n", 1),
                BoolBlock}
ShapeLoops == {DoWhile(Block("do_stuff"), Expr("first_n", 1)),
               DoWhileDo(Block("do_stuff"), Expr("first_n", 1), Block("do_more_stuff"))}
Delete(ts, i) == SubSeq(ts, 1, i - 1) \o Rest(ts, i)
Insert(ts, i, t) == SubSeq(ts, 1, i) \o <<t>> \o Rest(ts, i)
Replace(ts, i, t) == [ts EXCEPT ![i] = t]
Edits(ts) == {Delete(ts, i) : i \in 1..Len(ts)}
        \cup {Insert(ts, i, t) : i \in 0..Len(ts), t \in ShapeTokens}
        \cup {Replace(ts, i, t) : i \in 1..Len(ts), t \in ShapeTokens}
EditedInputs == UNION {Edits(ts) : ts \in Concats(ShapeLoops, MaxLoops)}

\* invocations of as many loops as the recursion limit, and of one fewer
Repeat(ts, n) == [p \in 1..(n * Len(ts)) |-> ts[((p - 1) % Len(ts)) + 1]]
LimitRuns == {<<Repeat(CountUp(1), RecursionLimit), <<>>>>}
BelowLimitRuns == {<<Repeat(CountUp(1), RecursionLimit - 1), <<>>>>}

\* a loop whose condition is a `while` expression, itself nested or not
WhileCond == <<WHILE, Expr("first_n", 1), Block("do_stuff")>>
NestedInputs ==
  {<<DO, Block("do_stuff"), WHILE>> \o WhileCond \o <<SEMI>>,
   <<DO, Block("do_stuff"), WHILE>> \o WhileCond \o <<COMMA, DO, Block("do_stuff")>>,
   <<DO, Block("do_stuff"), WHILE, WHILE>> \o WhileCond \o <<Block("do_stuff"), SEMI>>,
   CountUp(1) \o <<DO, Block("do_stuff"), WHILE>> \o WhileCond \o <<SEMI>>}

\* the loops of the documentation, `do { do_stuff(); } while condition;` and
\* `do { do_stuff(); } while condition, do { do_more_stuff(); }`, and the
\* same with a block written after `condition`
DocLoops == {DoWhile(Block("do_stuff"), PathExpr),
             DoWhileDo(Block("do_stuff"), PathExpr, Block("do_more_stuff"))}
StructInputs ==
  {<<DO, Block("do_stuff"), WHILE, PathExpr, b>> \o tl \o l :
     b \in {EmptyBlock, Block("do_stuff")},
     tl \in {<<SEMI>>, <<COMMA, DO, Block("do_more_stuff")>>},
     l \in {<<>>, CountUp(1)}}
  \cup {<<DO, Block("do_stuff"), WHILE, WHILE, PathExpr, Block("do_stuff"), SEMI>>}

\* Where and how an invocation is compiled and run: whether the name
\* `do_while` is in scope there (it is not when the macro is invoked by path
\* or imported under another name), the crate's recursion_limit, the macro
\* invocations around this one, the build's overflow checks, and the values
\* the counters are declared with.
Ctx(s, r, d, c, x0, y0) ==
  [in_scope |-> s, recursion_limit |-> r, depth |-> d, overflow_checks |-> c,
   x0 |-> x0, y0 |-> y0]
\* `use do_while::do_while;` in a crate of its own, built as the tests are
DefaultCtx == Ctx(TRUE, RecursionLimit, 0, TRUE, 0, 0)
InCtx(ins, c) == {<<r[1], r[2], c>> : r \in ins}

\* the macro invoked by path or under another name, or inside another macro
CtxInputs == Concats({CountUp(1), DoWhileDo(Block("do_stuff"), Expr("first_n", 1),
                                            Block("do_more_stuff"))}, MaxLoops)
CtxRuns == {<<ts, <<>>, Ctx(s, RecursionLimit, d, TRUE, 0, 0)>> :
              ts \in CtxInputs, s \in BOOLEAN, d \in {0, 1}}
\* one loop fewer than the limit inside one wrapping macro; one loop inside
\* as many macros as leave one level, the name in scope or not
WrappedLimitRuns ==
  InCtx(BelowLimitRuns, Ctx(TRUE, RecursionLimit, 1, TRUE, 0, 0))
  \cup {<<CountUp(1), <<>>, Ctx(s, RecursionLimit, RecursionLimit - 1, TRUE, 0, 0)>> :
          s \in BOOLEAN}
\* as many loops as a limit the crate sets, or one fewer; as many as the
\* default limit under a higher one
OtherLimitRuns ==
  {<<Repeat(CountUp(1), n), <<>>, Ctx(TRUE, LowLimit, 0, TRUE, 0, 0)>> :
     n \in {LowLimit - 1, LowLimit}}
  \cup {<<Repeat(CountUp(1), RecursionLimit), <<>>, Ctx(TRUE, HighLimit, 0, TRUE, 0, 0)>>}

\* do { x += 1; } while condition;  and  do { do_stuff(); } while condition,
\* do { y -= 1; }  with the counters declared one step from their limits
OverflowInputs ==
  {DoWhile(Block("inc_x"), Expr("first_n", n)) : n \in 0..MaxN}
  \cup {DoWhileDo(Block("do_stuff"), Expr("first_n", n), Block("dec_y")) : n \in 1..MaxN}
OverflowRuns == {<<ts, <<>>, Ctx(TRUE, RecursionLimit, 0, c, I32Max - 1, I32Min)>> :
                   ts \in OverflowInputs, c \in BOOLEAN}

\* always-true loops with a body that fails in the end
AlwaysPanicRuns ==
  {<<DoWhile(Block("inc_x"), Expr("always", 0)), <<>>,
     Ctx(TRUE, RecursionLimit, 0, TRUE, I32Max - 1, 0)>>,
   <<DoWhileDo(Block("push_item"), Expr("always", 0), Block("push_sep")), <<12>>,
     DefaultCtx>>}

Runs == InCtx({<<ts, l>> \in Concats(LoopTexts, MaxLoops) \X ListsOf(MaxListLen) :
              UsesList(ts) \/ l = <<>>}, DefaultCtx)
   \cup InCtx(TestRuns, DefaultCtx)
   \cup InCtx({<<ts, <<>>>> : ts \in EditedInputs \cup NestedInputs \cup StructInputs
                                  \cup Concats(DocLoops, MaxLoops)}, DefaultCtx)
   \cup InCtx(LimitRuns \cup BelowLimitRuns, DefaultCtx)
   \cup WrappedLimitRuns \cup OtherLimitRuns \cup CtxRuns \cup OverflowRuns
   \cup AlwaysPanicRuns

\* ------------------------------------------------------------------ state
VARIABLES input,   \* the tokens of the invocation as written
          ctx,     \* where and how the invocation is compiled and run
          rest,    \* the tokens of the do_while! invocation being expanded
          loops,   \* the while loops expanded so far, in order
          pc,      \* "expand", "compile", "body", "cond", "after", "done", "panicked",
                   \* "rejected", "unresolved", "compile_error", "recursion_limit"
          cur,     \* the loop running (0 before any runs, Len(loops)+1 after all)
          env,     \* the variables x, y, index, string, list
          seen,    \* per loop: the checks a scheduled condition has been through
          stats,   \* per loop: executions of body, checks, true checks, executions of after
          last,    \* the last body execution, check or secondary-body execution
          nsteps   \* how many of those have happened

vars == <<input, ctx, rest, loops, pc, cur, env, seen, stats, last, nsteps>>

Bump(c) == IF c < MaxCount THEN c + 1 ELSE c
BumpSteps(c) == IF c < MaxSteps THEN c + 1 ELSE c
ZeroStats == [body |-> 0, checks |-> 0, trues |-> 0, after |-> 0]
Event(kind, loop, val) == [kind |-> kind, loop |-> loop, val |-> val]
NoEvent == Event("none", 0, TRUE)

InitFrom(R) ==
  /\ \E r \in R : /\ input = r[1] /\ rest = r[1]
                  /\ ctx = r[3] /\ env = StartEnv(r[2], r[3])
  /\ loops = <<>>
  /\ pc = "expand"
  /\ cur = 0
  /\ seen = <<>>
  /\ stats = <<>>
  /\ last = NoEvent
  /\ nsteps = 0

Init == InitFrom(Runs)

\* --------------------------------------------------------------- expansion
\* the invocation to expand names the macro: the one written does, the
\* nested ones say `do_while!`, which must be in scope where they land
Resolves == IF loops = <<>> THEN TRUE ELSE ctx.in_scope
\* the invocation to expand is not nested too deep: one level per macro
\* around the invocation written and one per loop expanded so far
WithinLimit == ctx.depth + Len(loops) < ctx.recursion_limit
\* the invocation to expand is expanded by one of the arms, or by none
Expandable == pc = "expand" /\ Resolves /\ WithinLimit

\* first arm: nothing left to expand; the expanded code is compiled
ExpandEmpty ==
  /\ Expandable
  /\ MatchesEmpty(rest)
  /\ pc' = "compile"
  /\ UNCHANGED <<input, ctx, rest, loops, cur, env, seen, stats, last, nsteps>>

\* (mutant) the recursive expansion is emitted in front of the loop
ExpandDoWhilePrepends ==
  /\ Expandable
  /\ ~MatchesEmpty(rest)
  /\ MatchesDoWhile(rest)
  /\ loops' = <<WhileOfDoWhile(rest)>> \o loops
  /\ rest' = OthersOfDoWhile(rest)
  /\ seen' = Append(seen, 0)
  /\ stats' = Append(stats, ZeroStats)
  /\ UNCHANGED <<input, ctx, pc, cur, env, last, nsteps>>

\* second arm: one while loop, then do_while! { $( $others )* }
ExpandDoWhile ==
  /\ Expandable
  /\ ~MatchesEmpty(rest)
  /\ MatchesDoWhile(rest)
  /\ loops' = Append(loops, WhileOfDoWhile(rest))
  /\ rest' = OthersOfDoWhile(rest)
  /\ seen' = Append(seen, 0)
  /\ stats' = Append(stats, ZeroStats)
  /\ UNCHANGED <<input, ctx, pc, cur, env, last, nsteps>>

\* third arm: one while loop with a body, then do_while! { $( $others )* }
ExpandDoWhileDo ==
  /\ Expandable
  /\ ~MatchesEmpty(rest)
  /\ ~MatchesDoWhile(rest)
  /\ MatchesDoWhileDo(rest)
  /\ loops' = Append(loops, WhileOfDoWhileDo(rest))
  /\ rest' = OthersOfDoWhileDo(rest)
  /\ seen' = Append(seen, 0)
  /\ stats' = Append(stats, ZeroStats)
  /\ UNCHANGED <<input, ctx, pc, cur, env, last, nsteps>>

\* no arm matches, or a fragment does not parse: the compilation fails,
\* nothing runs
ExpandError ==
  /\ Expandable
  /\ ~MatchesEmpty(rest)
  /\ ~MatchesDoWhile(rest)
  /\ ~MatchesDoWhileDo(rest)
  /\ pc' = "rejected"
  /\ UNCHANGED <<input, ctx, rest, loops, cur, env, seen, stats, last, nsteps>>

\* the nested invocation finds no macro `do_while` in scope: the
\* compilation fails, nothing runs
ExpandUnresolved ==
  /\ pc = "expand"
  /\ WithinLimit
  /\ ~Resolves
  /\ pc' = "unresolved"
  /\ UNCHANGED <<input, ctx, rest, loops, cur, env, seen, stats, last, nsteps>>

\* the nested invocation is one too deep, in scope or not: the compilation
\* fails, nothing runs
ExpandRecursionLimit ==
  /\ pc = "expand"
  /\ ~WithinLimit
  /\ pc' = "recursion_limit"
  /\ UNCHANGED <<input, ctx, rest, loops, cur, env, seen, stats, last, nsteps>>

\* (mutant) a pre-tested loop: the condition is checked before the body
StartPcAtCond(ls) == IF ls = <<>> THEN "done" ELSE "cond"

\* where the expanded code starts: in the `$body;` of the first while loop
StartPc(ls) == IF ls = <<>> THEN "done" ELSE "body"

\* the expanded code is compiled: the condition block `{ $body; $cond }` of
\* every while loop must be a bool (a `while` expression is not, a struct
\* literal made of a path and a block does not build); then the program runs
Compile ==
  /\ pc = "compile"
  /\ IF \A i \in 1..Len(loops) : IsBool(loops[i].cond)
     THEN pc' = StartPc(loops) /\ cur' = 1
     ELSE pc' = "compile_error" /\ cur' = cur
  /\ UNCHANGED <<input, ctx, rest, loops, env, seen, stats, last, nsteps>>

\* --------------------------------------------------------------- execution
\* (mutant) a panic in the body is swallowed and the loop goes on
RunBodyIgnoresPanic ==
  /\ pc = "body"
  /\ LET r == ExecBlock(loops[cur].body, env, ctx.overflow_checks) IN
       /\ env' = r.env
       /\ pc' = "cond"
       /\ last' = Event("body", cur, r.ok)
  /\ stats' = [stats EXCEPT ![cur].body = Bump(@)]
  /\ nsteps' = BumpSteps(nsteps)
  /\ UNCHANGED <<input, ctx, rest, loops, cur, seen>>

\* while { $body; ... }: the primary body, first half of the loop condition
RunBody ==
  /\ pc = "body"
  /\ LET r == ExecBlock(loops[cur].body, env, ctx.overflow_checks) IN
       /\ env' = r.env
       /\ pc' = IF r.ok THEN "cond" ELSE "panicked"
       /\ last' = Event("body", cur, r.ok)
  /\ stats' = [stats EXCEPT ![cur].body = Bump(@)]
  /\ nsteps' = BumpSteps(nsteps)
  /\ UNCHANGED <<input, ctx, rest, loops, cur, seen>>

\* (mutant) the while body is always left empty
AfterTrueSkips(loop) == "body"

\* the pc a true check leads to: the secondary body `{ $body_after; }` of
\* the third arm; the second arm's while body `{}` holds nothing to execute
AfterTrue(loop) == IF loop.form = "dw" THEN "body" ELSE "after"
\* a scheduled condition counts its checks until it has turned false
NextSeen(c, n) == IF c.op = "first_n" /\ n < c.k THEN n + 1 ELSE n
\* the pc and loop a false check leads to: the next expanded loop, if any
AfterFalse(i, n) == IF i = n THEN "done" ELSE "body"

\* while { ...; $cond }: the value of the loop condition
CheckCond ==
  /\ pc = "cond"
  /\ LET b == EvalCond(loops[cur].cond, env, seen[cur]) IN
       /\ stats' = [stats EXCEPT ![cur].checks = Bump(@),
                                 ![cur].trues = IF b THEN Bump(@) ELSE @]
       /\ last' = Event("check", cur, b)
       /\ pc' = IF b THEN AfterTrue(loops[cur]) ELSE AfterFalse(cur, Len(loops))
       /\ cur' = IF b THEN cur ELSE cur + 1
  /\ seen' = [seen EXCEPT ![cur] = NextSeen(loops[cur].cond, @)]
  /\ nsteps' = BumpSteps(nsteps)
  /\ UNCHANGED <<input, ctx, rest, loops, env>>

\* (mutant) after the secondary body the condition is checked without the
\* primary body having run again
RunBodyAfterToCond ==
  /\ pc = "after"
  /\ LET r == ExecBlock(loops[cur].after, env, ctx.overflow_checks) IN
       /\ env' = r.env
       /\ pc' = IF r.ok THEN "cond" ELSE "panicked"
       /\ last' = Event("after", cur, r.ok)
  /\ stats' = [stats EXCEPT ![cur].after = Bump(@)]
  /\ nsteps' = BumpSteps(nsteps)
  /\ UNCHANGED <<input, ctx, rest, loops, cur, seen>>

\* (mutant) an `if` for the `while`: the loop is left after the secondary body
RunBodyAfterExits ==
  /\ pc = "after"
  /\ LET r == ExecBlock(loops[cur].after, env, ctx.overflow_checks) IN
       /\ env' = r.env
       /\ pc' = IF r.ok THEN AfterFalse(cur, Len(loops)) ELSE "panicked"
       /\ last' = Event("after", cur, r.ok)
  /\ cur' = cur + 1
  /\ stats' = [stats EXCEPT ![cur].after = Bump(@)]
  /\ nsteps' = BumpSteps(nsteps)
  /\ UNCHANGED <<input, ctx, rest, loops, seen>>

\* { $body_after; }: the body of the while loop
RunBodyAfter ==
  /\ pc = "after"
  /\ LET r == ExecBlock(loops[cur].after, env, ctx.overflow_checks) IN
       /\ env' = r.env
       /\ pc' = IF r.ok THEN "body" ELSE "panicked"
       /\ last' = Event("after", cur, r.ok)
  /\ stats' = [stats EXCEPT ![cur].after = Bump(@)]
  /\ nsteps' = BumpSteps(nsteps)
  /\ UNCHANGED <<input, ctx, rest, loops, cur, seen>>

Next ==
  \/ ExpandEmpty
  \/ ExpandDoWhile
  \/ ExpandDoWhileDo
  \/ ExpandError
  \/ ExpandUnresolved
  \/ ExpandRecursionLimit
  \/ Compile
  \/ RunBody
  \/ CheckCond
  \/ RunBodyAfter

Spec == Init /\ [][Next]_vars

\* The expanded code is a sequential program: while a step is possible the
\* program takes one.
FairRuns ==
  InCtx({<<ts, <<>>>> : ts \in Concats(SchedLoops \cup {CountUp(1)}, MaxLoops)}
     \cup {<<ts, <<>>>> : ts \in Edits(CountUp(1))}
     \cup {<<JoinLoop \o l, <<12>>>> : l \in SchedLoops}
     \cup LimitRuns, DefaultCtx)
  \cup {<<CountUp(1), <<>>, Ctx(FALSE, RecursionLimit, 0, TRUE, 0, 0)>>}
  \cup AlwaysPanicRuns
InitFair == InitFrom(FairRuns)
SpecFair == InitFair /\ [][Next]_vars /\ WF_vars(Next)

TypeOK ==
  /\ pc \in {"expand", "compile", "body", "cond", "after", "done", "panicked",
             "rejected", "unresolved", "compile_error", "recursion_limit"}
  /\ cur \in 0..(Len(loops) + 1)
  /\ Len(stats) = Len(loops) /\ Len(seen) = Len(loops)

\* ------------------------------------------------------------- vocabulary
Running == pc \in {"body", "cond", "after"}
Expanded == pc \in {"body", "cond", "after", "done", "panicked"}
\* the compilation of the invocation has failed
Failed == pc \in {"rejected", "unresolved", "compile_error", "recursion_limit"}
LoopIds == 1..Len(loops)
\* loop i has made its failing check and control has left it
Ended(i) == Expanded /\ i \in LoopIds /\ cur > i
Chars(n) == to_string(n)

\* ------------------------------------------------------------------- C1
\* C1: a loop whose condition is true on exactly its first N checks and
\* false on check N+1 has, once it has ended, executed its primary body
\* exactly N+1 times and its secondary body exactly N times (never, in the
\* plain do-while form); a condition scheduled to be true n times gives N = n.
C1_ExactCounts ==
  \A i \in LoopIds :
    Ended(i) =>
      /\ stats[i].checks = stats[i].trues + 1
      /\ stats[i].body = stats[i].trues + 1
      /\ stats[i].after = IF loops[i].form = "dwd" THEN stats[i].trues ELSE 0
      /\ loops[i].cond.op = "first_n" => stats[i].trues = loops[i].cond.k

C1_Witness ==
  \E i \in LoopIds :
    /\ Ended(i) /\ loops[i].form = "dwd"
    /\ loops[i].cond = Expr("first_n", 2)
    /\ stats[i].body = 3 /\ stats[i].after = 2

\* ------------------------------------------------------------------- C2
\* C2: the primary body has executed exactly once when the condition is
\* evaluated for the first time; if that first evaluation is false the loop
\* ends at once: one body execution, one check, no secondary body.
C2_BodyBeforeFirstCheck ==
  /\ \A i \in LoopIds :
       /\ (Expanded /\ stats[i].checks = 0) => (stats[i].body <= 1 /\ stats[i].after = 0)
       /\ (Expanded /\ stats[i].checks >= 1) => stats[i].body >= 1
  /\ (pc = "cond" /\ stats[cur].checks = 0) => stats[cur].body = 1
  /\ \A i \in LoopIds :
       (last = Event("check", i, FALSE) /\ stats[i].trues = 0) =>
         /\ cur = i + 1
         /\ stats[i] = [body |-> 1, checks |-> 1, trues |-> 0, after |-> 0]

C2_Witness ==
  /\ last = Event("check", 1, FALSE)
  /\ loops[1].form = "dwd"
  /\ stats[1] = [body |-> 1, checks |-> 1, trues |-> 0, after |-> 0]
  /\ cur = 2

\* ------------------------------------------------------------------- C3
\* C3: every execution of the secondary body comes directly after a check
\* of the same loop that returned true and directly before an execution of
\* that loop's primary body; none happens before the loop's first primary
\* body execution or after its failing check.
C3_SecondaryOnlyBetween ==
  [][ /\ last'.kind = "after" =>
           /\ last = Event("check", last'.loop, TRUE)
           /\ loops[last'.loop].form = "dwd"
           /\ stats[last'.loop].body >= 1
      /\ last.kind = "after" =>
           /\ last' = Event("body", last.loop, last'.val)
      /\ \A i \in LoopIds :
           (last = Event("check", i, FALSE) \/ cur > i) => stats'[i].after = stats[i].after
    ]_vars

C3_Witness ==
  /\ last.kind = "after"
  /\ stats[last.loop].after = 2
  /\ pc = "body"

\* ------------------------------------------------------------------- C4
FormText(loop) ==
  IF loop.form = "dw" THEN DoWhile(loop.body, loop.cond)
  ELSE DoWhileDo(loop.body, loop.cond, loop.after)
\* the number of tokens the loops in front of the i-th are written with
\* (loops whose conditions are one token each, as those of every invocation
\* that compiles are)
Offset(ls, i) ==
  Len(DoWhile(DO, DO)) * (i - 1)
  + (Len(DoWhileDo(DO, DO, DO)) - Len(DoWhile(DO, DO)))
    * Cardinality({j \in 1..(i - 1) : ls[j].form = "dwd"})
\* the tokens of ts at the place of the i-th loop of ls
Written(ls, ts, i) == SubSeq(ts, Offset(ls, i) + 1, Offset(ls, i + 1))
\* ts is the loops of ls written one after the other, and nothing else
IsRenderOf(ls, ts) ==
  /\ Len(ts) = Offset(ls, Len(ls) + 1)
  /\ \A i \in 1..Len(ls) : Written(ls, ts, i) = FormText(ls[i])

\* the variables a block assigns
BlockVars(b) ==
  CASE b.op = "inc_x" -> {"x"}
    [] b.op = "dec_y" -> {"y"}
    [] b.op = "push_item" -> {"index", "string"}
    [] b.op = "push_sep" -> {"string"}
    [] OTHER -> {}
\* the variables a loop assigns, in its primary or its secondary body
VarsOf(loop) == BlockVars(loop.body) \cup BlockVars(loop.after)
OwnVariables == \A i, j \in LoopIds : i # j => VarsOf(loops[i]) \cap VarsOf(loops[j]) = {}

\* one loop on its own: body, check, secondary body, and again
RECURSIVE Alone(_, _, _, _)
Alone(loop, e, nchecks, fuel) ==
  LET r == ExecBlock(loop.body, e, ctx.overflow_checks)
      a == ExecBlock(loop.after, r.env, ctx.overflow_checks) IN
    IF fuel = 0 \/ ~r.ok THEN r.env
    ELSE IF EvalCond(loop.cond, r.env, nchecks)
         THEN IF a.ok THEN Alone(loop, a.env, nchecks + 1, fuel - 1) ELSE a.env
         ELSE r.env

Str_5678 == <<"5", ",", " ", "6", ",", " ", "7", ",", " ", "8">>

\* C4: the loops of one invocation run one after another in textual order:
\* the expanded loops are the written ones in order, a loop has done nothing
\* before the loop in front of it made its failing check, nothing of a loop
\* happens after that check, and when every loop works on its own variables
\* each variable ends as it does when its loop runs alone (x = 10, y = -20,
\* "5, 6, 7, 8" for the three-loop test).
C4_SequentialLoops ==
  Expanded =>
    /\ IsRenderOf(loops, input)
    /\ \A j \in LoopIds : j > cur => stats[j] = ZeroStats
    /\ \A j \in LoopIds : j < cur => stats[j].checks = stats[j].trues + 1
    /\ last.kind # "none" =>
         \/ last.loop = cur /\ Running
         \/ last.loop = cur /\ pc = "panicked"
         \/ last = Event("check", cur - 1, FALSE)
    /\ (pc = "done" /\ OwnVariables) =>
         \A i \in LoopIds : \A v \in VarsOf(loops[i]) :
           env[v] = Alone(loops[i], StartEnv(env.list, ctx), 0, MaxCount)[v]
    /\ (pc = "done" /\ input = TestMulti /\ env.list = <<5, 6, 7, 8>>) =>
         /\ env.x = 10 /\ env.y = 0 - 20 /\ env.string = Str_5678

C4_Witness ==
  /\ pc = "done" /\ input = TestMulti
  /\ env.x = 10 /\ env.y = 0 - 20 /\ env.string = Str_5678
  /\ stats[1].body = 10 /\ stats[2].body = 20 /\ stats[3].after = 3

\* ------------------------------------------------------------------- C5
RECURSIVE Joined(_)
Joined(l) == IF Len(l) = 1 THEN Chars(l[1])
             ELSE Joined(SubSeq(l, 1, Len(l) - 1)) \o Separator \o Chars(l[Len(l)])

IsJoin(loop) == FormText(loop) = JoinLoop
\* the number of loops written in front of token k + 1
LoopsBefore(ts, k) == Cardinality({n \in 1..k : ts[n] = WHILE})
\* the i-th loop written in the invocation is the join loop, and no other
\* loop of the invocation pushes items
SoleJoin(i) ==
  \E k \in 0..(Len(input) - Len(JoinLoop)) :
    /\ input[k + 2].op = "push_item"
    /\ \A n \in 1..Len(input) : input[n].op = "push_item" => n = k + 2
    /\ SubSeq(input, k + 1, k + Len(JoinLoop)) = JoinLoop
    /\ LoopsBefore(input, k) = i - 1

Str_1234 == <<"1", ",", " ", "2", ",", " ", "3", ",", " ", "4">>

\* C5: the join loop over a non-empty list of n elements ends, without a
\* panic, with the n elements in order and n-1 separators, one between each
\* two neighbours and none before the first or after the last
\* ("1, 2, 3, 4" for [1, 2, 3, 4]).
C5_JoinResult ==
  \A i \in LoopIds :
    (Expanded /\ env.list # <<>> /\ SoleJoin(i)) =>
      /\ pc = "panicked" => cur # i
      /\ cur > i =>
           /\ env.string = Joined(env.list)
           /\ env.index = Len(env.list)
           /\ stats[i].body = Len(env.list)
           /\ stats[i].after = Len(env.list) - 1
           /\ env.list = <<1, 2, 3, 4>> => env.string = Str_1234

C5_Witness ==
  /\ pc = "done" /\ input = TestJoin
  /\ env.list = <<1, 2, 3, 4>> /\ env.string = Str_1234

\* ------------------------------------------------------------------- C6
IsCountUp(loop) == loop.form = "dw" /\ loop.body.op = "inc_x" /\ loop.cond.op = "x_lt"
SoleCountUp(i) ==
  IsCountUp(loops[i]) /\ \A j \in LoopIds : j # i => "x" \notin VarsOf(loops[j])

\* C6: the counter loop from 0 with limit K ends with as many checks as body
\* executions, only the last check false; K = 10 gives 10 executions, 10
\* checks and a counter of 10; any K <= 1 gives one execution and a counter
\* of 1.
C6_CounterLoop ==
  \A i \in LoopIds :
    (Ended(i) /\ SoleCountUp(i) /\ ctx.x0 = 0) =>
      LET K == loops[i].cond.k IN
        /\ stats[i].checks = stats[i].body
        /\ stats[i].trues = stats[i].checks - 1
        /\ env.x = stats[i].body
        /\ K = 10 => (stats[i].body = 10 /\ stats[i].checks = 10 /\ env.x = 10)
        /\ K <= 1 => (stats[i].body = 1 /\ env.x = 1)
        /\ K >= 1 => env.x = K

C6_Witness ==
  /\ pc = "done" /\ input = TestSimple
  /\ env.x = 10 /\ stats[1].body = 10 /\ stats[1].checks = 10 /\ stats[1].trues = 9

\* ------------------------------------------------------------------- C8
Shape(ts) == [i \in 1..Len(ts) |-> ts[i].t]
\* p is one loop of the first or second form, with a bool for its condition
IsLoopText(p) ==
  /\ p[2].t = "block" /\ IsExprFragment(p[4]) /\ IsBool(p[4])
  /\ \/ p = DoWhile(p[2], p[4])
     \/ Len(p) = 7 /\ p[7].t = "block" /\ p = DoWhileDo(p[2], p[4], p[7])
\* where a loop written in ts can end: at a `;`, or at the second token
\* after a `,` (no other token of a loop is a `;` or a `,`)
LoopEnds(ts) == {p \in 1..Len(ts) : ts[p].t = ";" \/ (p > 2 /\ ts[p - 2].t = ",")}
\* ts is a concatenation of zero or more loops of either form: the tokens
\* between one loop end and the next are one loop, up to the last token
InLanguage(ts) ==
  LET E == LoopEnds(ts) \cup {0} IN
    /\ Len(ts) \in E
    /\ \A b \in E \ {0} :
         LET a == CHOOSE a \in E : a < b /\ \A c \in E : c < b => c <= a IN
           /\ b - a \in {Len(DoWhile(DO, DO)), Len(DoWhileDo(DO, DO, DO))}
           /\ IsLoopText(SubSeq(ts, a + 1, b))
\* the loops written in ts
NumLoops(ts) == LoopsBefore(ts, Len(ts))

\* nothing of the invocation has run
NothingRun ==
  /\ nsteps = 0 /\ last = NoEvent /\ cur = 0
  /\ env = StartEnv(env.list, ctx)
  /\ \A i \in LoopIds : stats[i] = ZeroStats

\* C8: an invocation is accepted exactly when it is a concatenation of zero
\* or more loops of the two forms (the empty one expanding to nothing); any
\* other input is rejected as a whole and nothing of it runs.
C8_AsStated ==
  /\ Failed => ~InLanguage(input)
  /\ (Expanded /\ nsteps = 0) =>
       /\ InLanguage(input)
       /\ \A i \in LoopIds :
            Shape(Written(loops, input, i)) = Shape(FormText(loops[i]))
  /\ (Failed \/ pc \in {"expand", "compile"}) => NothingRun
  /\ (Expanded /\ input = <<>>) => (pc = "done" /\ loops = <<>>)

\* ------------------------------------------------------------------- C9
\* C9: a panic inside a body ends the construct there: nothing of that loop
\* or of a later loop executes afterwards, and the variables are as the
\* failing body left them; the join loop over an empty list panics in its
\* first primary-body execution, before any check, with an empty accumulator,
\* and does not end normally.
C9_PanicStops ==
  [][ /\ pc = "panicked" => FALSE
      /\ pc' = "panicked" =>
           /\ pc \in {"body", "after"} /\ cur' = cur
           /\ last' = Event(pc, cur, FALSE)
           /\ ~ExecBlock(loops[cur][pc], env, ctx.overflow_checks).ok
           /\ \A j \in LoopIds : j > cur => stats'[j] = ZeroStats
      /\ \A b \in {"body", "after"} :
           (pc = b /\ ~ExecBlock(loops[cur][b], env, ctx.overflow_checks).ok) =>
             (pc' = "panicked" /\ env' = env)
      /\ \A i \in LoopIds :
           (pc = "body" /\ cur = i /\ env.list = <<>> /\ SoleJoin(i)) =>
             /\ pc' = "panicked"
             /\ stats'[i] = [body |-> 1, checks |-> 0, trues |-> 0, after |-> 0]
             /\ env'.string = <<>>
    ]_vars

C9_Witness ==
  /\ pc = "panicked" /\ env.list = <<>>
  /\ cur = 1 /\ Len(loops) = 2 /\ IsJoin(loops[1])
  /\ stats[1].body = 1 /\ stats[1].checks = 0 /\ stats[2] = ZeroStats

\* ------------------------------------------------------------------- C7
SlotIds == 1..(MaxLoops + 1)
At(i) == Running /\ cur = i
AlwaysAt(i) == At(i) /\ loops[i].cond.op = "always"
AlwaysRunning == Running /\ loops[cur].cond.op = "always"

AlwaysLoop(i) == Expanded /\ cur = i /\ i \in LoopIds /\ loops[i].cond.op = "always"
\* the last thing done is an execution of block b of loop i, completed or not
Executed(b, i) == last.kind = b /\ last.loop = i

RefBlock(loop, order) ==
  IF loop.form = "dw" THEN <<"body">>
  ELSE IF order = "after_last" THEN <<"body", "after">> ELSE <<"after", "body">>

RefStart(ls, e) ==
  [i |-> 1, at |-> "prime", j |-> 0, env |-> e, checks |-> 0,
   last |-> NoEvent, status |-> IF ls = <<>> THEN "done" ELSE "run"]

RefExec(s, loop, which, at, j) ==
  LET r == ExecBlock(IF which = "body" THEN loop.body ELSE loop.after, s.env,
                     ctx.overflow_checks) IN
    [s EXCEPT !.env = r.env, !.last = Event(which, s.i, r.ok),
              !.status = IF r.ok THEN "run" ELSE "panicked", !.at = at, !.j = j]

RefStep(s, ls, order) ==
  IF s.status # "run" THEN s
  ELSE LET loop == ls[s.i]
           blk == RefBlock(loop, order) IN
    CASE s.at = "prime" -> RefExec(s, loop, "body", "test", 0)
      [] s.at = "test" ->
           IF EvalCond(loop.cond, s.env, s.checks)
           THEN [s EXCEPT !.checks = @ + 1, !.last = Event("check", s.i, TRUE),
                          !.at = "block", !.j = 1]
           ELSE [s EXCEPT !.checks = 0, !.last = Event("check", s.i, FALSE),
                          !.i = @ + 1, !.at = "prime",
                          !.status = IF s.i = Len(ls) THEN "done" ELSE "run"]
      [] OTHER -> RefExec(s, loop, blk[s.j],
                          IF s.j = Len(blk) THEN "test" ELSE "block", s.j + 1)

RECURSIVE RefRun(_, _, _, _)
RefRun(s, ls, order, k) ==
  IF k = 0 THEN s ELSE RefRun(RefStep(s, ls, order), ls, order, k - 1)

\* after every step the expansion and the hand-written loop have made the
\* same execution or check, hold the same variables, and have ended alike
SameAsRef(order) ==
  (Expanded /\ nsteps < MaxSteps) =>
    LET s == RefRun(RefStart(loops, StartEnv(env.list, ctx)), loops, order, nsteps) IN
      /\ s.last = last
      /\ s.env = env
      /\ (s.status = "done") <=> (pc = "done")
      /\ (s.status = "panicked") <=> (pc = "panicked")

\* C10 as stated: the expansion behaves as the primed pre-tested loop with
\* the secondary body at the end of the repeated block.
C10_AsStated == SameAsRef("after_last")

\* C10 amended: the expansion behaves as the primed pre-tested loop
\* `body; while cond { body_after; body }`, the secondary body at the start
\* of the repeated block, before the primary body.
C10_PrimedLoopEquivalent == SameAsRef("after_first")

C10_Witness ==
  /\ pc = "done" /\ input = TestJoin /\ env.list = <<1, 2, 3, 4>>
  /\ nsteps = 11
  /\ RefRun(RefStart(loops, StartEnv(env.list, ctx)), loops, "after_first", nsteps).env.string = Str_1234

====
